---- MODULE Spec2Model ----
(***************************************************************************)
(* Model of record_l3.py: the Kraken level3 WebSocket recorder.            *)
(*                                                                         *)
(* One asyncio task runs Recorder.run; the only other actor is the signal  *)
(* handler main.shutdown_signal, which the event loop runs as a callback,  *)
(* i.e. only while the task is suspended in an await.  The synchronous     *)
(* stretches of run() between two awaits are split into steps by pc, and   *)
(* the handler is enabled only at the pcs that are awaits (AwaitPoints).   *)
(*                                                                         *)
(* The environment is nondeterministic: the REST token call, the socket    *)
(* connect/send/recv, the open() and write() of the sink, the arrival of   *)
(* the signal, the passing of the UTC day and the expiry of sleep timers.  *)
(* flush() and close() of an open file are taken to succeed, and nothing   *)
(* but the recorder touches the output directory while it runs.            *)
(* The signal handlers are taken to be installed (main, lines 311-313).    *)
(* The system clock behind the nonce may be set back (ClockSetBack).       *)
(*                                                                         *)
(* The sink is modelled line by line, a line being a record with its byte  *)
(* length; what write_message makes of the characters of a frame is        *)
(* modelled apart (Line, LineSpec).                                        *)
(***************************************************************************)
EXTENDS Integers, Sequences, FiniteSets, TLC

(***************************************************************************)
(* Program constants (record_l3.py lines 45-48).                           *)
(***************************************************************************)
BACKOFF_INIT == 1
BACKOFF_MAX == 60
BACKOFF_MULT == 2

(* FLUSH_EVERY_N is 100 in the source (line 48); the model scales it down  *)
(* so that the periodic flush happens within MaxMsgs messages.             *)
FLUSH_EVERY_N == 2

(* Size units per megabyte: 1024 * 1024 in the source (line 148), scaled   *)
(* down so that a few messages reach the rotation threshold.               *)
BytesPerMB == 2

(***************************************************************************)
(* Bounds of the model.                                                    *)
(***************************************************************************)
(* The environment of a behaviour delivers at most msgCap messages and     *)
(* lets at most faultCap operations fail (token, connect, send, recv,      *)
(* open, write); a behaviour is either rich in messages or rich in faults. *)
MaxMsgs == 3
FewFaults == 1
FewMsgs == 1
MaxFaults == 7
MaxRestarts == 1
Stream == [msgs |-> MaxMsgs, faults |-> FewFaults, restarts |-> 0, skews |-> 0]
Faulty == [msgs |-> FewMsgs, faults |-> MaxFaults, restarts |-> 0, skews |-> 0]
Restarted == [msgs |-> MaxMsgs, faults |-> 0, restarts |-> MaxRestarts, skews |-> 0]
(* In the Skewed environment the system clock is set back, at most         *)
(* MaxSkews times and by at most MaxSkew seconds at a time.                *)
MaxSkews == 1
MaxSkew == 2
Skewed == [msgs |-> 0, faults |-> FewFaults, restarts |-> 0, skews |-> MaxSkews]
MaxDay == 1
(* The count of consecutive failures is kept exactly up to MaxFails. *)
MaxFails == 8

(* Python's None, for a socket, a file or path, a date and a size limit. *)
None == "None"
NoFile == <<>>
NoDate == 0 - 1
NoLimit == 0 - 1

Min(a, b) == IF a <= b THEN a ELSE b

(* Byte lengths of the lines a message can produce. *)
MsgLens == {1, 2}

(* Depth values a configuration may carry; main accepts 10, 100, 1000. *)
ValidDepths == {10, 100, 1000}
Depths == {10, 5}

(* A file name l3-<date>.ndjson is <<date, 0>>; l3-<date>-000n.ndjson is   *)
(* <<date, n>>.                                                            *)
BaseName(date) == <<date, 0>>
SeqName(date, n) == <<date, n>>

(* A file on disk before the first run holds one foreign line. *)
Foreign == [id |-> 0, len |-> 1, day |-> 0]

VARIABLES
  config,                \* what load_config returned
  pc,                    \* position of main / Recorder.run
  _shutdown,             \* Recorder._shutdown
  _ws,                   \* Recorder._ws: None or "ws"
  _file,                 \* Recorder._file: None or the name the open handle writes to
  _current_date,         \* Recorder._current_date
  _current_file_path,    \* Recorder._current_file_path
  _max_file_size_bytes,  \* Recorder._max_file_size_bytes
  _write_count,          \* Recorder._write_count
  backoff,               \* run's local backoff
  exc,                   \* what the attempt raised (e, lines 259-263): "none" or its cause
  conn,                  \* the socket of the current attempt: "none", "open", "closed"
  closeReq,              \* the handler scheduled ws.close() on the current socket
  sleepLeft,             \* delay of the current asyncio.sleep that has not elapsed yet
  day,                   \* current UTC day (date_prefix)
  disk,                  \* output directory: file name -> lines the OS holds
  buf,                   \* lines written to the open handle and not flushed yet
  nrecv,                 \* messages delivered by ws.recv() so far
  nfaults,               \* operations the environment let fail so far
  msgCap,                \* messages the environment delivers at most
  faultCap,              \* operations the environment lets fail at most
  restartCap,            \* times the process is started again at most
  restarts,              \* how many times the process was started again
  \* history variables, read by the properties only
  written,               \* messages write_message handled without raising, in order
  opened,                \* names opened by _open_file, in order
  preexisting,           \* names on disk before the recorder first ran
  fails,                 \* consecutive attempts ended in a sleep since start / last subscribe
  lastDelay,             \* delay of the sleep in progress
  waitedAfterShutdown,   \* sleep delay that elapsed after the shutdown flag was set
  tokenReqs,             \* the process requested a token
  sockOpens,             \* the process opened a socket
  sdStreaming,           \* the shutdown flag was set while run was in Streaming
  lateWrites,            \* messages written after the shutdown flag was set
  tokenCalls,            \* get_websockets_token calls of this process so far
  sleptSince,            \* backoff sleep elapsed since the last token request, at most BACKOFF_MAX
  token,                 \* run's local token: 0, or the call that returned it
  acquired,              \* tokens acquired in the current iteration of the loop
  subscribes,            \* subscribe requests sent in the current iteration of the loop
  nonceAge,              \* seconds time.time() is ahead of the time of the largest nonce
  staleNonces,           \* a token request used a nonce not larger than an earlier one
  skewLeft,              \* times the environment still sets the system clock back
  out,                   \* characters write_message's lines appended to the file (LineSpec)
  nwrites,               \* write_message calls that returned (LineSpec)
  wsOf,                  \* the attempt whose socket _ws refers to, 0 for None
  closeOf                \* the attempt whose socket the handler called close() on, 0 for none

vars == <<config, pc, _shutdown, _ws, _file, _current_date, _current_file_path,
          _max_file_size_bytes, _write_count, backoff, exc, conn, closeReq,
          sleepLeft, day, disk, buf, nrecv, nfaults, msgCap, faultCap, restartCap,
          restarts, written, opened,
          preexisting, fails, lastDelay, waitedAfterShutdown, tokenReqs,
          sockOpens, sdStreaming,
          lateWrites,
          tokenCalls,
          sleptSince,
          token,
          acquired,
          subscribes,
          nonceAge,
          staleNonces,
          skewLeft,
          out,
          nwrites,
          wsOf,
          closeOf>>

sinkVars == <<_file, _current_date, _current_file_path, _write_count, disk, buf,
              written, opened>>
envVars == <<day, nrecv, restarts, preexisting, config, msgCap, faultCap, restartCap>>

(* The environment may let one more operation fail. *)
MayFail == nfaults < faultCap

(***************************************************************************)
(* The Output Sink: _next_path_for_date, _open_file, write_message, close. *)
(* The operators work on a record of the sink's fields (Sink) and return   *)
(* the record after the call, with raised = TRUE when the call raised.     *)
(***************************************************************************)
Sink ==
  [file |-> _file, date |-> _current_date, path |-> _current_file_path,
   count |-> _write_count, disk |-> disk, buf |-> buf,
   written |-> written, opened |-> opened, raised |-> FALSE]

SetSink(s) ==
  /\ _file' = s.file
  /\ _current_date' = s.date
  /\ _current_file_path' = s.path
  /\ _write_count' = s.count
  /\ disk' = s.disk
  /\ buf' = s.buf
  /\ written' = s.written
  /\ opened' = s.opened

RECURSIVE Size(_)
(* os.path.getsize: the bytes the OS holds for a file. *)
Size(lines) ==
  IF lines = <<>> THEN 0 ELSE Head(lines).len + Size(Tail(lines))

RECURSIVE NextSeq_Stride(_, _, _)
(* A variant of the probe that steps over every other number. *)
NextSeq_Stride(d, date, n) ==
  IF SeqName(date, n) \in DOMAIN d THEN NextSeq_Stride(d, date, n + 2) ELSE n

RECURSIVE NextSeq(_, _, _)
(* lines 166-168: the first n >= 1 whose sequence file does not exist. *)
NextSeq(d, date, n) ==
  IF SeqName(date, n) \in DOMAIN d THEN NextSeq(d, date, n + 1) ELSE n

(* A variant of _next_path_for_date that does not probe the directory. *)
NextPathForDate_NoProbe(d, date) == BaseName(date)

(* _next_path_for_date, lines 157-169. *)
NextPathForDate(d, date) ==
  IF BaseName(date) \notin DOMAIN d
  THEN BaseName(date)
  ELSE SeqName(date, NextSeq(d, date, 1))

(* file.flush(): the buffered lines reach the OS. *)
FileFlush(s) ==
  [s EXCEPT !.disk = [@ EXCEPT ![s.file] = @ \o s.buf], !.buf = <<>>]

(* A variant of the close that drops the handle with its buffered lines. *)
FileClose_NoFlush(s) == [s EXCEPT !.file = NoFile, !.buf = <<>>]

(* file.close(): flushes, and the handle is gone. *)
FileClose(s) == [FileFlush(s) EXCEPT !.file = NoFile]

(* open(path, "a"): creates the file when it is absent, keeps it otherwise. *)
OpenAppend(d, path) ==
  IF path \in DOMAIN d THEN d ELSE [n \in DOMAIN d \cup {path} |->
                                      IF n = path THEN <<>> ELSE d[n]]

(* A variant of _open_file without the date test. *)
DateChanged_Never(s, today) == FALSE

(* line 174: rotate if the date changed. *)
DateChanged(s, today) == s.file # NoFile /\ s.date # today

(* lines 180-187: rotate if the current file has reached max size; the     *)
(* size is what os.path.getsize reports, i.e. without the buffered lines.  *)
SizeReached(s, maxBytes) ==
  /\ s.file # NoFile
  /\ s.path # NoFile
  /\ maxBytes # NoLimit
  /\ Size(s.disk[s.path]) >= maxBytes

(* _open_file, lines 171-198; openOK = FALSE: open() raises OSError. *)
OpenFile(s, today, maxBytes, openOK) ==
  LET s1 == IF DateChanged(s, today)
            THEN [FileClose(s) EXCEPT !.path = NoFile, !.date = NoDate]
            ELSE s
      s2 == IF SizeReached(s1, maxBytes)
            THEN [FileClose(s1) EXCEPT !.path = NoFile]
            ELSE s1
      path == NextPathForDate(s2.disk, today)
  IN  IF s2.file # NoFile
      THEN s2
      ELSE IF openOK
           THEN [s2 EXCEPT !.date = today,
                           !.file = path,
                           !.path = path,
                           !.disk = OpenAppend(@, path),
                           !.opened = Append(@, path)]
           ELSE [s2 EXCEPT !.date = today, !.raised = TRUE]

(* _open_file has to open a file (it does not return at line 194). *)
NeedsOpen(s, today, maxBytes) ==
  OpenFile(s, today, maxBytes, FALSE).raised

(* A variant of write_message without the periodic flush. *)
FlushDue_Never(count) == FALSE

(* line 209: the periodic flush is due. *)
FlushDue(count) == count % FLUSH_EVERY_N = 0

(* lines 205/207: file.write(line). *)
FileWrite(s, msg) == [s EXCEPT !.buf = Append(@, msg)]

(* write_message, lines 200-210.  io = "openerr": open() raises;           *)
(* io = "writeerr": file.write raises; spill: the io buffer filled up and  *)
(* the library passed the buffered lines to the OS during write().         *)
WriteMessage(s, msg, today, maxBytes, io, spill) ==
  LET s1 == OpenFile(s, today, maxBytes, io # "openerr")
      s2 == FileWrite(s1, msg)
      s3 == [s2 EXCEPT !.count = @ + 1, !.written = Append(@, msg)]
      s4 == IF spill THEN FileFlush(s3) ELSE s3
  IN  IF s1.raised THEN s1
      ELSE IF io = "writeerr" THEN [s1 EXCEPT !.raised = TRUE]
      ELSE IF FlushDue(s4.count) THEN FileFlush(s4) ELSE s4

(* close, lines 212-218. *)
Close(s) ==
  [(IF s.file # NoFile THEN FileClose(s) ELSE s) EXCEPT !.date = NoDate, !.path = NoFile]

(***************************************************************************)
(* Configurations load_config can return, as far as main and run read      *)
(* them: whether symbols is non-empty, the depth, whether api_key and      *)
(* api_secret are set, and max_file_size_mb.                               *)
(***************************************************************************)
Configs ==
  [symbols : {0, 1}, depth : Depths, api_key : BOOLEAN, api_secret : BOOLEAN,
   max_file_size_mb : {NoLimit, 0, 1}]

(* main accepts the configuration and both credentials are set. *)
Usable(cfg) ==
  cfg.symbols > 0 /\ cfg.depth \in ValidDepths /\ cfg.api_key /\ cfg.api_secret

(* The starts of the process that are explored: a configuration, the files *)
(* already in the output directory, and what the environment will do.      *)
(* Every configuration occurs; the usable ones occur with no size limit on *)
(* an empty directory in the message-rich and the fault-rich environment,  *)
(* and with each size limit on directories holding colliding names in the  *)
(* message-rich environment, once with restarts of the process; the clock  *)
(* is set back in an environment of its own.                               *)
Preseeds(cfg) ==
  IF ~Usable(cfg) \/ cfg.max_file_size_mb = NoLimit THEN {{}}
  ELSE IF cfg.max_file_size_mb = 0 THEN {{BaseName(0)}}
  ELSE {{}, {SeqName(0, 1)}, {BaseName(0), SeqName(0, 1)}}

Environments(cfg, pre) ==
  IF Usable(cfg) /\ cfg.max_file_size_mb = NoLimit THEN {Stream, Faulty, Skewed}
  ELSE IF Usable(cfg) /\ cfg.max_file_size_mb = 1 /\ pre = {} THEN {Stream, Restarted}
  ELSE {Stream}

(* A variant of main's validation without the depth test. *)
ConfigRejected_SymbolsOnly(cfg) == cfg.symbols = 0

(* main, lines 280 and 283: the configuration is rejected. *)
ConfigRejected(cfg) == cfg.symbols = 0 \/ cfg.depth \notin ValidDepths

(* A variant of the credential check that tests the key only. *)
CredsMissing_KeyOnly(cfg) == ~cfg.api_key

(* run, line 224. *)
CredsMissing(cfg) == ~cfg.api_key \/ ~cfg.api_secret

(* Recorder.__init__, lines 147-149. *)
MaxFileSizeBytes(mb) == IF mb # NoLimit THEN mb * BytesPerMB ELSE NoLimit

(* A variant of the delay in which the sleep takes no time. *)
Delay_None(b) == 0

(* lines 229 and 268: the delay slept. *)
Delay(b) == Min(b, BACKOFF_MAX)

(* A variant of the growth that adds instead of multiplying. *)
NextBackoff_Additive(b) == Min(b + BACKOFF_MULT, BACKOFF_MAX)

(* lines 230 and 271: the backoff after a sleep. *)
NextBackoff(b) == Min(b * BACKOFF_MULT, BACKOFF_MAX)

(* get_websockets_token, line 105: the nonce is the clock reading          *)
(* time.time() in milliseconds, cut to an integer; t is in seconds.        *)
MsPerSec == 1000
Nonce(t) == t * MsPerSec

(* The nonce taken now is larger than every nonce used before: there is    *)
(* none, or the clock is ahead of the time the largest one was taken.      *)
NonceIsNew(calls, age) == calls = 0 \/ Nonce(age) > Nonce(0)

(* The awaits of run: websockets.connect, ws.send, ws.recv, the close in   *)
(* __aexit__, and the two asyncio.sleep.                                   *)
AwaitPoints == {"connecting", "sending", "recv", "aexit", "sleep", "cred_sleep"}
Sleeps == {"sleep", "cred_sleep"}

InitialDisk(pre) == [n \in pre |-> <<Foreign>>]

Init ==
  /\ config \in Configs
  /\ \E pre \in Preseeds(config) :
       /\ disk = InitialDisk(pre)
       /\ preexisting = InitialDisk(pre)
       /\ \E env \in Environments(config, pre) :
            /\ msgCap = env.msgs
            /\ faultCap = env.faults
            /\ restartCap = env.restarts
            /\ skewLeft = env.skews
  /\ pc = "main"
  /\ _shutdown = FALSE
  /\ _ws = None
  /\ _file = NoFile
  /\ _current_date = NoDate
  /\ _current_file_path = NoFile
  /\ _max_file_size_bytes = NoLimit
  /\ _write_count = 0
  /\ backoff = BACKOFF_INIT
  /\ exc = "none"
  /\ conn = "none"
  /\ closeReq = FALSE
  /\ sleepLeft = 0
  /\ day = 0
  /\ buf = <<>>
  /\ nrecv = 0
  /\ nfaults = 0
  /\ restarts = 0
  /\ written = <<>>
  /\ opened = <<>>
  /\ fails = 0
  /\ lastDelay = 0
  /\ waitedAfterShutdown = 0
  /\ tokenReqs = FALSE
  /\ sockOpens = FALSE
  /\ sdStreaming = FALSE
  /\ lateWrites = 0
  /\ tokenCalls = 0
  /\ sleptSince = 0
  /\ token = 0
  /\ acquired = 0
  /\ subscribes = <<>>
  /\ nonceAge = 0
  /\ staleNonces = FALSE
  /\ out = <<>>
  /\ nwrites = 0
  /\ wsOf = 0
  /\ closeOf = 0

(* The fields Recorder.__init__ sets (lines 150-155) and run's backoff     *)
(* (line 221), with the per-process history.                               *)
FreshProcess ==
  /\ _shutdown' = FALSE
  /\ _ws' = None
  /\ _file' = NoFile
  /\ _current_date' = NoDate
  /\ _current_file_path' = NoFile
  /\ _write_count' = 0
  /\ backoff' = BACKOFF_INIT
  /\ exc' = "none"
  /\ conn' = "none"
  /\ closeReq' = FALSE
  /\ sleepLeft' = 0
  /\ buf' = <<>>
  /\ fails' = 0
  /\ lastDelay' = 0
  /\ waitedAfterShutdown' = 0
  /\ tokenReqs' = FALSE
  /\ sockOpens' = FALSE
  /\ sdStreaming' = FALSE
  /\ lateWrites' = 0
  /\ tokenCalls' = 0
  /\ sleptSince' = 0
  /\ token' = 0
  /\ acquired' = 0
  /\ subscribes' = <<>>
  /\ nonceAge' = 0
  /\ staleNonces' = FALSE
  /\ wsOf' = 0
  /\ closeOf' = 0

(* main, lines 275-318: validation, Recorder(...), handlers, run() begins. *)
Main ==
  /\ pc = "main"
  /\ IF ConfigRejected(config)
     THEN /\ pc' = "exit1"
          /\ UNCHANGED _max_file_size_bytes
     ELSE /\ pc' = "loop"
          /\ _max_file_size_bytes' = MaxFileSizeBytes(config.max_file_size_mb)
  /\ FreshProcess
  /\ UNCHANGED <<config, day, disk, nrecv, nfaults, msgCap, faultCap, restartCap, restarts,
                 written, opened, preexisting>>
  /\ UNCHANGED <<skewLeft, out, nwrites>>

(* The step to a sleep of the current delay (lines 229 and 268-270). *)
StartSleep(where) ==
  /\ pc' = where
  /\ sleepLeft' = Delay(backoff)
  /\ lastDelay' = Delay(backoff)
  /\ fails' = Min(fails + 1, MaxFails)

(* lines 222-231 and 272: the test of the outer loop, then the credential  *)
(* check; with the flag set the loop ends and close() runs.                *)
LoopTest ==
  /\ pc = "loop"
  /\ IF _shutdown
     THEN /\ SetSink(Close(Sink))
          /\ pc' = "done"
          /\ UNCHANGED <<sleepLeft, lastDelay, fails>>
     ELSE IF CredsMissing(config)
          THEN /\ StartSleep("cred_sleep")
               /\ UNCHANGED sinkVars
          ELSE /\ pc' = "token"
               /\ UNCHANGED <<sleepLeft, lastDelay, fails, sinkVars>>
  /\ exc' = "none"
  /\ acquired' = 0
  /\ subscribes' = <<>>
  /\ UNCHANGED <<envVars, nfaults, _shutdown, _ws, _max_file_size_bytes, backoff,
                 conn, closeReq, waitedAfterShutdown, tokenReqs, sockOpens,
                 sdStreaming>>
  /\ UNCHANGED <<lateWrites, tokenCalls, sleptSince, token, nonceAge, staleNonces,
                 skewLeft, out, nwrites, wsOf, closeOf>>

(* line 232: get_websockets_token returns a token or raises. *)
TokenRequest ==
  /\ pc = "token"
  /\ tokenReqs' = TRUE
  /\ tokenCalls' = tokenCalls + 1
  /\ sleptSince' = 0
  /\ subscribes' = subscribes
  /\ staleNonces' = (staleNonces \/ ~NonceIsNew(tokenCalls, nonceAge))
  /\ nonceAge' = (IF NonceIsNew(tokenCalls, nonceAge) THEN 0 ELSE nonceAge)
  /\ \E ok \in BOOLEAN :
       IF ok THEN /\ pc' = "connecting" /\ exc' = exc /\ nfaults' = nfaults
                  /\ token' = tokenCalls + 1
                  /\ acquired' = acquired + 1
             ELSE /\ MayFail /\ pc' = "except" /\ exc' = "token" /\ nfaults' = nfaults + 1
                  /\ UNCHANGED <<token, acquired>>
  /\ UNCHANGED <<envVars, sinkVars, _shutdown, _ws, _max_file_size_bytes, backoff,
                 conn, closeReq, sleepLeft, fails, lastDelay, waitedAfterShutdown,
                 sockOpens, sdStreaming>>
  /\ UNCHANGED <<lateWrites, skewLeft, out, nwrites, wsOf, closeOf>>

(* lines 233-250: websockets.connect completes or raises; with the socket  *)
(* open, self._ws is set and the subscribe request is handed to ws.send.   *)
Connect ==
  /\ pc = "connecting"
  /\ sockOpens' = TRUE
  /\ \E ok \in BOOLEAN :
       IF ok THEN /\ pc' = "sending"
                  /\ conn' = "open"
                  /\ _ws' = "ws"
                  /\ wsOf' = tokenCalls
                  /\ exc' = exc
                  /\ nfaults' = nfaults
             ELSE /\ MayFail
                  /\ nfaults' = nfaults + 1
                  /\ pc' = "except"
                  /\ exc' = "connect"
                  /\ UNCHANGED <<conn, _ws, wsOf>>
  /\ UNCHANGED <<envVars, sinkVars, _shutdown, _max_file_size_bytes, backoff,
                 closeReq, sleepLeft, fails, lastDelay, waitedAfterShutdown,
                 tokenReqs, sdStreaming>>
  /\ UNCHANGED <<lateWrites, tokenCalls, sleptSince, token, acquired, subscribes,
                 nonceAge, staleNonces, skewLeft, out, nwrites, closeOf>>

(* A variant of the subscribe request that carries the first token the     *)
(* process acquired.                                                       *)
SubscribeRequest_FirstToken(tok) == [method |-> "subscribe", token |-> 1]

(* lines 240-249: the subscribe request, with run's local token. *)
SubscribeRequest(tok) == [method |-> "subscribe", token |-> tok]

(* A variant of the inner loop's test that does not read the flag. *)
InnerLoopTest_NoTest == pc' = "recv" /\ exc' = exc

(* line 256: the test of the inner loop, after the send and after a write. *)
InnerLoopTest ==
  IF _shutdown THEN pc' = "aexit" /\ exc' = "none"
               ELSE pc' = "recv" /\ exc' = exc

(* A variant that resets the backoff whether or not ws.send returned. *)
BackoffAfterSend_Always(sent, b) == BACKOFF_INIT

(* lines 250-255: the backoff is reset when ws.send has returned; when it  *)
(* raised, line 255 is not reached.                                        *)
BackoffAfterSend(sent, b) == IF sent THEN BACKOFF_INIT ELSE b

(* lines 250-256: ws.send returns or raises; after it the backoff is       *)
(* reset.                                                                  *)
Send ==
  /\ pc = "sending"
  /\ \E ok \in BOOLEAN :
       IF ok THEN /\ backoff' = BackoffAfterSend(ok, backoff)
                  /\ fails' = 0
                  /\ subscribes' = Append(subscribes, SubscribeRequest(token))
                  /\ InnerLoopTest
                  /\ nfaults' = nfaults
             ELSE /\ MayFail
                  /\ nfaults' = nfaults + 1
                  /\ pc' = "aexit"
                  /\ exc' = "send"
                  /\ backoff' = BackoffAfterSend(ok, backoff)
                  /\ UNCHANGED <<fails, subscribes>>
  /\ UNCHANGED <<envVars, sinkVars, _shutdown, _ws, _max_file_size_bytes, conn,
                 closeReq, sleepLeft, lastDelay, waitedAfterShutdown, tokenReqs,
                 sockOpens, sdStreaming>>
  /\ UNCHANGED <<lateWrites, tokenCalls, sleptSince, token, acquired, nonceAge,
                 staleNonces, skewLeft, out, nwrites, wsOf, closeOf>>

(* lines 257-258 and 256: ws.recv returns a message, write_message runs.   *)
RecvMessage ==
  /\ pc = "recv"
  /\ conn = "open"
  /\ nrecv < msgCap
  /\ nrecv' = nrecv + 1
  /\ \E len \in MsgLens, io \in {"ok", "openerr", "writeerr"}, spill \in BOOLEAN :
       LET msg == [id |-> nrecv + 1, len |-> len, day |-> day]
           r == WriteMessage(Sink, msg, day, _max_file_size_bytes, io, spill)
       IN  /\ io = "openerr" => NeedsOpen(Sink, day, _max_file_size_bytes)
           /\ io # "ok" => ~spill /\ MayFail
           /\ nfaults' = (IF io = "ok" THEN nfaults ELSE nfaults + 1)
           /\ SetSink(r)
           /\ lateWrites' = (IF _shutdown /\ ~r.raised THEN lateWrites + 1 ELSE lateWrites)
           /\ IF r.raised THEN pc' = "aexit" /\ exc' = io
                          ELSE InnerLoopTest
  /\ UNCHANGED <<config, day, restarts, preexisting, msgCap, faultCap, restartCap, _shutdown,
                 _ws, _max_file_size_bytes, backoff, conn, closeReq, sleepLeft, fails,
                 lastDelay, waitedAfterShutdown, tokenReqs, sockOpens, sdStreaming>>
  /\ UNCHANGED <<tokenCalls, sleptSince, token, acquired, subscribes, nonceAge,
                 staleNonces, skewLeft, out, nwrites, wsOf, closeOf>>

(* line 257: ws.recv raises ConnectionClosed: the peer or the network      *)
(* closed the connection.                                                  *)
RecvClosed ==
  /\ pc = "recv"
  /\ MayFail
  /\ nfaults' = nfaults + 1
  /\ pc' = "aexit"
  /\ exc' = "recv"
  /\ conn' = "closed"
  /\ UNCHANGED <<envVars, sinkVars, _shutdown, _ws, _max_file_size_bytes, backoff,
                 closeReq, sleepLeft, fails, lastDelay, waitedAfterShutdown,
                 tokenReqs, sockOpens, sdStreaming>>
  /\ UNCHANGED <<lateWrites, tokenCalls, sleptSince, token, acquired, subscribes,
                 nonceAge, staleNonces, skewLeft, out, nwrites, wsOf, closeOf>>

(* line 257: ws.recv raises ConnectionClosed because the close the handler *)
(* scheduled (line 309) completed.                                         *)
RecvForcedClose ==
  /\ pc = "recv"
  /\ closeReq
  /\ pc' = "aexit"
  /\ exc' = "recv"
  /\ conn' = "closed"
  /\ UNCHANGED <<envVars, nfaults, sinkVars, _shutdown, _ws, _max_file_size_bytes,
                 backoff, closeReq, sleepLeft, fails, lastDelay, waitedAfterShutdown,
                 tokenReqs, sockOpens, sdStreaming>>
  /\ UNCHANGED <<lateWrites, tokenCalls, sleptSince, token, acquired, subscribes,
                 nonceAge, staleNonces, skewLeft, out, nwrites, wsOf, closeOf>>

(* A variant of the exit of the connection that also closes the output     *)
(* file.                                                                   *)
AExit_ClosingFile ==
  /\ pc = "aexit"
  /\ pc' = "except"
  /\ conn' = "closed"
  /\ SetSink(Close(Sink))
  /\ UNCHANGED <<envVars, nfaults, _shutdown, _ws, _max_file_size_bytes, backoff,
                 exc, closeReq, sleepLeft, fails, lastDelay, waitedAfterShutdown,
                 tokenReqs, sockOpens, sdStreaming>>
  /\ UNCHANGED <<lateWrites, tokenCalls, sleptSince, token, acquired, subscribes,
                 nonceAge, staleNonces, skewLeft, out, nwrites, wsOf, closeOf>>

(* The exit of the async with block (line 233): __aexit__ awaits the close *)
(* of the socket and then lets the exception, if any, travel on.           *)
AExit ==
  /\ pc = "aexit"
  /\ pc' = "except"
  /\ conn' = "closed"
  /\ UNCHANGED <<envVars, nfaults, sinkVars, _shutdown, _ws, _max_file_size_bytes, backoff,
                 exc, closeReq, sleepLeft, fails, lastDelay, waitedAfterShutdown,
                 tokenReqs, sockOpens, sdStreaming>>
  /\ UNCHANGED <<lateWrites, tokenCalls, sleptSince, token, acquired, subscribes,
                 nonceAge, staleNonces, skewLeft, out, nwrites, wsOf, closeOf>>

(* A variant of the finally clause that keeps the reference. *)
WsAfterAttempt_Kept(ws) == ws

(* lines 264-265: finally, self._ws = None. *)
WsAfterAttempt(ws) == None

(* Variants of line 266: the test is missing, or it always breaks. *)
BreakOnShutdown_Never(flag) == FALSE
BreakOnShutdown_Always(flag) == TRUE

(* line 266: the loop is left when the flag is set. *)
BreakOnShutdown(flag) == flag

(* lines 259-270 and 272: the except clauses log, finally clears _ws, then *)
(* either break and close(), or the sleep of the current delay begins.     *)
Except ==
  /\ pc = "except"
  /\ _ws' = WsAfterAttempt(_ws)
  /\ wsOf' = (IF WsAfterAttempt(_ws) = None THEN 0 ELSE wsOf)
  /\ conn' = "none"
  /\ closeReq' = FALSE
  /\ IF BreakOnShutdown(_shutdown)
     THEN /\ SetSink(Close(Sink))
          /\ pc' = "done"
          /\ UNCHANGED <<sleepLeft, lastDelay, fails>>
     ELSE /\ StartSleep("sleep")
          /\ UNCHANGED sinkVars
  /\ UNCHANGED <<envVars, nfaults, _shutdown, _max_file_size_bytes, backoff, exc,
                 waitedAfterShutdown, tokenReqs, sockOpens, sdStreaming>>
  /\ UNCHANGED <<lateWrites, tokenCalls, sleptSince, token, acquired, subscribes,
                 nonceAge, staleNonces, skewLeft, out, nwrites, closeOf>>

(* asyncio.sleep (lines 229 and 270): the delay elapses.  Nothing in the   *)
(* handler or in run cancels the timer.                                    *)
Elapse ==
  /\ pc \in Sleeps
  /\ sleepLeft > 0
  /\ sleepLeft' = 0
  /\ sleptSince' = Min(sleptSince + sleepLeft, BACKOFF_MAX)
  /\ nonceAge' = (IF tokenCalls = 0 THEN nonceAge ELSE Min(nonceAge + sleepLeft, BACKOFF_MAX))
  /\ waitedAfterShutdown' =
       IF _shutdown THEN waitedAfterShutdown + sleepLeft ELSE waitedAfterShutdown
  /\ UNCHANGED <<envVars, nfaults, sinkVars, pc, _shutdown, _ws, _max_file_size_bytes,
                 backoff, exc, conn, closeReq, fails, lastDelay, tokenReqs,
                 sockOpens, sdStreaming>>
  /\ UNCHANGED <<lateWrites, tokenCalls, token, acquired, subscribes, staleNonces,
                 skewLeft, out, nwrites, wsOf, closeOf>>

(* lines 270-271: the reconnect sleep returns, the backoff grows. *)
SleepReturn ==
  /\ pc = "sleep"
  /\ sleepLeft = 0
  /\ backoff' = NextBackoff(backoff)
  /\ pc' = "loop"
  /\ lastDelay' = 0
  /\ UNCHANGED <<envVars, nfaults, sinkVars, _shutdown, _ws, _max_file_size_bytes,
                 exc, conn, closeReq, sleepLeft, fails, waitedAfterShutdown,
                 tokenReqs, sockOpens, sdStreaming>>
  /\ UNCHANGED <<lateWrites, tokenCalls, sleptSince, token, acquired, subscribes,
                 nonceAge, staleNonces, skewLeft, out, nwrites, wsOf, closeOf>>

(* lines 229-231: the missing-credential sleep returns, the backoff grows. *)
CredSleepReturn ==
  /\ pc = "cred_sleep"
  /\ sleepLeft = 0
  /\ backoff' = NextBackoff(backoff)
  /\ pc' = "loop"
  /\ lastDelay' = 0
  /\ UNCHANGED <<envVars, nfaults, sinkVars, _shutdown, _ws, _max_file_size_bytes,
                 exc, conn, closeReq, sleepLeft, fails, waitedAfterShutdown,
                 tokenReqs, sockOpens, sdStreaming>>
  /\ UNCHANGED <<lateWrites, tokenCalls, sleptSince, token, acquired, subscribes,
                 nonceAge, staleNonces, skewLeft, out, nwrites, wsOf, closeOf>>

(* main.shutdown_signal, lines 306-309, run by the event loop while run is *)
(* suspended in an await.                                                  *)
ShutdownSignal ==
  /\ pc \in AwaitPoints
  /\ _shutdown' = TRUE
  /\ closeReq' = IF _ws # None THEN TRUE ELSE closeReq
  /\ closeOf' = IF _ws # None THEN wsOf ELSE closeOf
  /\ sdStreaming' = (sdStreaming \/ pc = "recv")
  /\ UNCHANGED <<envVars, nfaults, sinkVars, pc, _ws, _max_file_size_bytes, backoff, exc,
                 conn, sleepLeft, fails, lastDelay, waitedAfterShutdown, tokenReqs,
                 sockOpens>>
  /\ UNCHANGED <<lateWrites, tokenCalls, sleptSince, token, acquired, subscribes,
                 nonceAge, staleNonces, skewLeft, out, nwrites, wsOf>>

(* date_prefix (lines 126-128): the UTC day passes. *)
DayTick ==
  /\ day < MaxDay
  /\ day' = day + 1
  /\ UNCHANGED <<config, nrecv, nfaults, msgCap, faultCap, restartCap, restarts, preexisting,
                 sinkVars, pc, _shutdown, _ws,
                 _max_file_size_bytes, backoff, exc, conn, closeReq, sleepLeft,
                 fails, lastDelay, waitedAfterShutdown, tokenReqs, sockOpens,
                 sdStreaming>>
  /\ UNCHANGED <<lateWrites, tokenCalls, sleptSince, token, acquired, subscribes,
                 nonceAge, staleNonces, skewLeft, out, nwrites, wsOf, closeOf>>

(* time.time() (line 105) reads the system clock, which an administrator   *)
(* or a time daemon may set back.                                          *)
ClockSetBack ==
  /\ skewLeft > 0
  /\ tokenCalls > 0
  /\ skewLeft' = skewLeft - 1
  /\ \E s \in 1..MaxSkew : nonceAge' = nonceAge - s
  /\ UNCHANGED <<envVars, nfaults, sinkVars, pc, _shutdown, _ws, _max_file_size_bytes,
                 backoff, exc, conn, closeReq, sleepLeft, fails, lastDelay,
                 waitedAfterShutdown, tokenReqs, sockOpens, sdStreaming, lateWrites,
                 tokenCalls, sleptSince, token, acquired, subscribes, staleNonces>>
  /\ UNCHANGED <<out, nwrites, wsOf, closeOf>>

(* The process, having returned from run, is started again on the same     *)
(* output directory and configuration.                                     *)
Restart ==
  /\ pc = "done"
  /\ restarts < restartCap
  /\ restarts' = restarts + 1
  /\ pc' = "main"
  /\ preexisting' = disk
  /\ FreshProcess
  /\ UNCHANGED <<config, day, disk, nrecv, nfaults, msgCap, faultCap, restartCap, written, opened,
                 _max_file_size_bytes>>
  /\ UNCHANGED <<skewLeft, out, nwrites>>

Next ==
  \/ Main
  \/ LoopTest
  \/ TokenRequest
  \/ Connect
  \/ Send
  \/ RecvMessage
  \/ RecvClosed
  \/ RecvForcedClose
  \/ AExit
  \/ Except
  \/ Elapse
  \/ SleepReturn
  \/ CredSleepReturn
  \/ ShutdownSignal
  \/ DayTick
  \/ ClockSetBack
  \/ Restart

Spec == Init /\ [][Next]_vars

(* The steps of the task and of its timers: the event loop runs a task     *)
(* that is ready, a sleep timer expires, a token, connect or send call     *)
(* returns or raises within its timeout, and a close the handler scheduled *)
(* completes within close_timeout.                                         *)
RunStep ==
  \/ Main
  \/ LoopTest
  \/ TokenRequest
  \/ Connect
  \/ Send
  \/ RecvForcedClose
  \/ AExit
  \/ Except
  \/ Elapse
  \/ SleepReturn
  \/ CredSleepReturn

(* Liveness is checked on the starts in which a usable configuration has a *)
(* size limit of 1 MB and the output directory is empty, or the clock is   *)
(* set back.                                                               *)
LiveInit ==
  /\ Init
  /\ Usable(config) => (config.max_file_size_mb = 1 /\ disk = <<>>) \/ skewLeft > 0

LiveSpec == LiveInit /\ [][Next]_vars /\ WF_vars(RunStep)

(***************************************************************************)
(* The line write_message writes for a frame (lines 202-207), character by *)
(* character.  The characters are a digit, a letter, a space, a newline    *)
(* and a double quote; a frame is a text of at most MaxFrameLen of them.   *)
(***************************************************************************)
MaxFrameLen == 3
MaxWrites == 2
NL == "\n"
Quote == "\""
Chars == {"1", "a", " ", NL, Quote}
Frames == UNION {[1..n -> Chars] : n \in 0..MaxFrameLen}

(* Whitespace for str.rstrip() and between JSON tokens. *)
IsSpace(c) == c \in {" ", NL}

RECURSIVE RStrip(_)
(* str.rstrip(), line 205. *)
RStrip(t) ==
  IF t # <<>> /\ IsSpace(t[Len(t)]) THEN RStrip(SubSeq(t, 1, Len(t) - 1)) ELSE t

RECURSIVE LStrip(_)
LStrip(t) == IF t # <<>> /\ IsSpace(Head(t)) THEN LStrip(Tail(t)) ELSE t

(* A JSON number: digits.  A JSON string: quotes around characters that    *)
(* are neither a quote nor a control character such as the newline.        *)
IsNumber(t) == t # <<>> /\ \A i \in DOMAIN t : t[i] = "1"
IsString(t) ==
  /\ Len(t) >= 2
  /\ t[1] = Quote
  /\ t[Len(t)] = Quote
  /\ \A i \in 2..(Len(t) - 1) : t[i] \notin {Quote, NL}

(* json.loads, line 203: the value, or "JSONDecodeError"; white space      *)
(* around the value is skipped.                                            *)
Loads(raw) ==
  LET t == LStrip(RStrip(raw))
  IN  IF IsNumber(t) THEN [kind |-> "int", digits |-> t]
      ELSE IF IsString(t) THEN [kind |-> "str", chars |-> SubSeq(t, 2, Len(t) - 1)]
      ELSE [kind |-> "JSONDecodeError"]

(* json.dumps(obj, ensure_ascii=False), line 207. *)
Dumps(obj) ==
  IF obj.kind = "int" THEN obj.digits ELSE <<Quote>> \o obj.chars \o <<Quote>>

(* lines 202-207: the text handed to file.write. *)
Line(raw) ==
  IF Loads(raw).kind = "JSONDecodeError"
  THEN RStrip(raw) \o <<NL>>
  ELSE Dumps(Loads(raw)) \o <<NL>>

(* write_message (lines 200-207) on a frame, as far as the characters of   *)
(* the file go.                                                            *)
WriteFrame ==
  /\ nwrites < MaxWrites
  /\ nwrites' = nwrites + 1
  /\ \E raw \in Frames : out' = out \o Line(raw)
  /\ UNCHANGED <<envVars, nfaults, sinkVars, pc, _shutdown, _ws, _max_file_size_bytes,
                 backoff, exc, conn, closeReq, sleepLeft, fails, lastDelay,
                 waitedAfterShutdown, tokenReqs, sockOpens, sdStreaming, lateWrites,
                 tokenCalls, sleptSince, token, acquired, subscribes, nonceAge,
                 staleNonces, skewLeft, wsOf, closeOf>>

(* Frames of any content are written one after the other to one file. *)
LineInit ==
  /\ Init
  /\ Usable(config)
  /\ config.max_file_size_mb = NoLimit
  /\ msgCap = MaxMsgs

LineNext == WriteFrame

LineSpec == LineInit /\ [][LineNext]_vars

(***************************************************************************)
(* Properties.                                                             *)
(***************************************************************************)

(* All the lines written to a file: those the OS holds, then those still   *)
(* in the open handle's buffer.                                            *)
Contents(n) == disk[n] \o (IF n = _file THEN buf ELSE <<>>)

RECURSIVE ConcatContents(_)
ConcatContents(names) ==
  IF names = <<>> THEN <<>>
  ELSE Contents(Head(names)) \o ConcatContents(Tail(names))

RECURSIVE Pow(_, _)
Pow(b, e) == IF e = 0 THEN 1 ELSE b * Pow(b, e - 1)

Front(q) == SubSeq(q, 1, Len(q) - 1)

(* C1: a shutdown request during a backoff sleep (reconnect or             *)
(* missing-credential) makes the sleep return at once: no part of the      *)
(* delay elapses after the shutdown flag was set.                          *)
C1_SleepReturnsAtOnce == waitedAfterShutdown = 0

(* C2: once shutdown was requested during Streaming, run never enters a    *)
(* backoff sleep and never starts another attempt, it eventually reaches   *)
(* Closed, and there the output file is flushed and closed.                *)
C2_ShutdownWhileStreaming ==
  /\ [](sdStreaming => pc \in {"recv", "aexit", "except", "done"})
  /\ [](sdStreaming /\ pc = "done" => _file = NoFile /\ buf = <<>>)
  /\ (sdStreaming ~> pc = "done")

C2_Witness ==
  /\ sdStreaming
  /\ pc = "done"
  /\ written # <<>>
  /\ \E i \in DOMAIN opened : disk[opened[i]] # <<>>

C4_ErrorsFoldIntoBackoff ==
  /\ [](pc = "done" => _shutdown)
  /\ [][/\ nfaults' > nfaults => pc' \in {"aexit", "except"} /\ exc' # "none"
        /\ pc = "aexit" => pc' \in {"aexit", "except"}
        /\ pc = "except" /\ ~_shutdown => pc' \in {"except", "sleep"}
        /\ pc = "sleep" => pc' \in {"sleep", "loop"}
        /\ pc = "loop" /\ ~_shutdown => pc' \in {"loop", "token", "cred_sleep"}
       ]_vars

C4_Witness ==
  /\ pc = "token"
  /\ nfaults = 6
  /\ ~_shutdown
  /\ Len(written) < nrecv

(* C5: the records of the output files, files in the order they were       *)
(* opened and lines in file order, are exactly the messages write_message  *)
(* handled, in arrival order, each once.                                   *)
C5_RecordsAreTheMessages == ConcatContents(opened) = written

C5_Witness ==
  /\ nrecv = 3
  /\ Len(written) = 2
  /\ written[1].id = 1
  /\ written[2].id = 3
  /\ Len(opened) = 2
  /\ pc = "done"

(* C6: the delay of the sleep after the N-th consecutive failed attempt,   *)
(* counted from the start of run or from the last successful subscribe, is *)
(* min(BACKOFF_INIT * BACKOFF_MULT^(N-1), BACKOFF_MAX).                    *)
C6_NthDelay ==
  pc \in {"sleep", "cred_sleep"} =>
    /\ fails >= 1
    /\ lastDelay = Min(BACKOFF_INIT * Pow(BACKOFF_MULT, fails - 1), BACKOFF_MAX)
    /\ sleepLeft \in {0, lastDelay}

C6_Witness ==
  /\ pc = "sleep"
  /\ fails = 7
  /\ lastDelay = BACKOFF_MAX
  /\ nrecv > 0

(* C7: every message written lies in exactly one file, and that file is    *)
(* named for the UTC day on which the message was written.                 *)
C7_DayRotation ==
  /\ \A i \in DOMAIN opened :
       \A j \in DOMAIN Contents(opened[i]) :
         Contents(opened[i])[j].day = opened[i][1]
  /\ \A k \in DOMAIN written :
       Cardinality({ij \in {<<i, j>> : i \in DOMAIN opened, j \in 1..Len(written)} :
                      /\ ij[2] <= Len(Contents(opened[ij[1]]))
                      /\ Contents(opened[ij[1]])[ij[2]] = written[k]}) = 1

C7_Witness ==
  /\ day = 1
  /\ Len(opened) = 2
  /\ opened[1][1] = 0
  /\ opened[2][1] = 1
  /\ Len(Contents(opened[1])) >= 1
  /\ Len(Contents(opened[2])) >= 1

(* C8: with a threshold T configured, no write lands in a file whose size  *)
(* (all bytes written to it by earlier write_message calls) was already    *)
(* at or above T: the lines before the last one of a file are below T.     *)
C8_SizeRotation ==
  _max_file_size_bytes > 0 =>
    \A i \in DOMAIN opened :
      Contents(opened[i]) # <<>> =>
        Size(Front(Contents(opened[i]))) < _max_file_size_bytes

(* C9: every path _open_file opens did not exist when it was chosen, and   *)
(* the files on disk when the process started keep their contents.         *)
C9_NeverOpensExisting ==
  /\ [](\A n \in DOMAIN preexisting : n \in DOMAIN disk /\ disk[n] = preexisting[n])
  /\ [][Len(opened') > Len(opened) =>
          opened'[Len(opened')] \notin DOMAIN disk]_vars

C9_Witness ==
  /\ restarts = 1
  /\ \E n \in DOMAIN preexisting : Len(preexisting[n]) >= 2
  /\ Len(opened) >= 2
  /\ opened[Len(opened)] \notin DOMAIN preexisting
  /\ Len(written) = 3

(* C10: at most FLUSH_EVERY_N - 1 lines are written and not flushed, also  *)
(* across rotations and reconnects, and none when run has returned.        *)
C10_UnflushedBound ==
  /\ Len(buf) <= FLUSH_EVERY_N - 1
  /\ pc = "done" => buf = <<>> /\ _file = NoFile

C10_Witness ==
  /\ Len(buf) = FLUSH_EVERY_N - 1
  /\ _write_count > FLUSH_EVERY_N
  /\ Len(opened) >= 2
  /\ nfaults >= 1


(* C11 as claimed: once the shutdown flag has been set, no further message *)
(* is received from the socket and written to the output file.             *)
C11_NoWriteAfterShutdown == lateWrites = 0

(* C11 as amended: a receive that was in flight when the flag was set is   *)
(* not interrupted; its message, if one arrives before the forced close    *)
(* completes, is written, and it is the only one: at most one message is   *)
(* written after the flag was set, only when the signal was handled during *)
(* an ws.recv(), and after that write run receives no more.                *)
C11_AtMostTheOneInFlight ==
  /\ lateWrites <= 1
  /\ lateWrites = 1 => sdStreaming /\ pc \in {"aexit", "except", "done"}
  /\ _shutdown /\ pc = "recv" => sdStreaming /\ closeReq /\ lateWrites = 0

C11_Witness ==
  /\ lateWrites = 1
  /\ pc = "done"
  /\ Len(written) = 2


(* C12: a failure of get_websockets_token ends the attempt with no socket  *)
(* opened in it (the failure is raised by the token request and leads      *)
(* straight to the except clause), and every token request but the first   *)
(* of a process comes after a backoff sleep of at least BACKOFF_INIT that  *)
(* elapsed since the previous one: attempts never follow each other        *)
(* without a sleep.                                                        *)
C12_NoHotLoop ==
  /\ [](pc = "except" /\ exc = "token" => conn = "none" /\ _ws = None)
  /\ [](pc = "token" /\ tokenCalls >= 1 => sleptSince >= BACKOFF_INIT)
  /\ [][/\ exc' = "token" /\ exc # "token" => pc = "token" /\ pc' = "except"
        /\ pc' = "connecting" /\ pc # "connecting" => pc = "token" /\ exc' # "token"
        /\ tokenCalls' > tokenCalls /\ tokenCalls >= 1 => sleptSince >= BACKOFF_INIT
       ]_vars

C12_Witness ==
  /\ pc = "token"
  /\ tokenCalls = 2
  /\ sleptSince = 2
  /\ ~sockOpens


(* C13: an attempt that opens a socket has acquired exactly one token      *)
(* before, in the same iteration of the loop, by a call that no earlier    *)
(* attempt made; the subscribe request of the attempt carries that token,  *)
(* never the token of an earlier attempt; and the token lives in a local   *)
(* of run, which a new call overwrites, not in a field of the Recorder.    *)
C13_FreshTokenPerAttempt ==
  /\ [](pc \in {"connecting", "sending", "recv", "aexit"} =>
          acquired = 1 /\ token = tokenCalls)
  /\ [](conn # "none" \/ _ws # None => acquired = 1 /\ token = tokenCalls)
  /\ [](\A i \in DOMAIN subscribes :
          subscribes[i].token = tokenCalls /\ subscribes[i].token = token)
  /\ [][/\ token' # token /\ pc # "done" => token' = tokenCalls + 1 /\ tokenCalls' = token'
        /\ pc' = "connecting" /\ pc # "connecting" => token' # token
        /\ Len(subscribes') > Len(subscribes) =>
             subscribes'[Len(subscribes')].token = tokenCalls
       ]_vars

C13_Witness ==
  /\ pc = "recv"
  /\ tokenCalls = 3
  /\ subscribes = <<[method |-> "subscribe", token |-> 3]>>
  /\ nrecv = 1


(* C14: within one process, every get_websockets_token call uses a nonce   *)
(* strictly larger than the nonce of every earlier call.                   *)
C14_NoncesIncrease == ~staleNonces


RECURSIVE Newlines(_)
(* The number of newline characters of a text. *)
Newlines(t) ==
  IF t = <<>> THEN 0 ELSE (IF Head(t) = NL THEN 1 ELSE 0) + Newlines(Tail(t))

(* C15: after any sequence of writes that returned, the file holds as many *)
(* newline characters as messages were written, and it ends with the one   *)
(* newline that ends the last record.                                      *)
C15_OneLinePerMessage ==
  /\ Newlines(out) = nwrites
  /\ nwrites > 0 => out[Len(out)] = NL


(* C16: with an empty symbol list or a depth other than 10, 100, 1000 the  *)
(* process leaves main by sys.exit(1) and stays there; the Recorder is     *)
(* never constructed (its fields are never set, no file is opened), no     *)
(* token is requested and no socket is opened.                             *)
C16_RejectedBeforeConnecting ==
  /\ [](config.symbols = 0 \/ config.depth \notin {10, 100, 1000} =>
          /\ pc \in {"main", "exit1"}
          /\ ~tokenReqs /\ tokenCalls = 0
          /\ ~sockOpens /\ conn = "none" /\ _ws = None
          /\ _max_file_size_bytes = NoLimit
          /\ _file = NoFile /\ opened = <<>> /\ disk = preexisting)
  /\ [][pc = "exit1" => pc' = "exit1"]_vars
  /\ [](pc = "exit1" => config.symbols = 0 \/ config.depth \notin {10, 100, 1000})

C16_Witness ==
  /\ pc = "exit1"
  /\ config.symbols = 1
  /\ config.depth = 5
  /\ config.api_key /\ config.api_secret
  /\ config.max_file_size_mb = 1
  /\ _max_file_size_bytes = NoLimit
  /\ day = 1


(* C17: a file is opened under the base name of the current day when that  *)
(* name is not on disk, and otherwise under the sequence name whose number *)
(* is the smallest n >= 1 not on disk; once a file was opened for a day    *)
(* the base name of the day is on disk, so every later file of the day has *)
(* a sequence number; and the numbers of the files opened for one day      *)
(* (0 for the base name) are strictly increasing.                          *)
C17_NamesInSequence ==
  /\ [](\A i \in DOMAIN opened : BaseName(opened[i][1]) \in DOMAIN disk)
  /\ [](\A i, j \in DOMAIN opened :
          i < j /\ opened[i][1] = opened[j][1] => opened[i][2] < opened[j][2])
  /\ [][Len(opened') > Len(opened) =>
          LET p == opened'[Len(opened')]
          IN  /\ Len(opened') = Len(opened) + 1
              /\ p[1] = day
              /\ IF <<p[1], 0>> \notin DOMAIN disk
                 THEN p[2] = 0
                 ELSE /\ p[2] >= 1
                      /\ <<p[1], p[2]>> \notin DOMAIN disk
                      /\ \A n \in 1..(p[2] - 1) : <<p[1], n>> \in DOMAIN disk
              /\ (\E i \in DOMAIN opened : opened[i][1] = p[1]) => p[2] >= 1
       ]_vars

C17_Witness ==
  /\ <<0, 1>> \in DOMAIN preexisting
  /\ Len(opened) = 3
  /\ opened[1] = <<0, 0>>
  /\ opened[2] = <<0, 2>>
  /\ opened[3] = <<0, 3>>


(* C18: the backoff changes only by the growth after a sleep, by the reset *)
(* at the step in which ws.send of the subscribe request returns on the    *)
(* open socket, and at the start of a process; a failure of the token      *)
(* request, of connect or of the send changes neither the backoff nor the  *)
(* requests sent; a connection sends one subscribe request at most, and    *)
(* has sent exactly one when a receive begins or a message is written.     *)
C18_ResetAfterSubscribe ==
  /\ [](Len(subscribes) <= 1)
  /\ [](pc = "recv" => Len(subscribes) = 1 /\ backoff = BACKOFF_INIT)
  /\ [](pc \in {"token", "connecting", "sending"} => subscribes = <<>>)
  /\ [][/\ backoff' # backoff =>
             \/ pc \in {"sleep", "cred_sleep"} /\ pc' = "loop"
                  /\ backoff' > backoff /\ backoff' # BACKOFF_INIT
             \/ pc = "sending" /\ conn = "open" /\ backoff' = BACKOFF_INIT
                  /\ nfaults' = nfaults /\ Len(subscribes') = Len(subscribes) + 1
             \/ pc = "done" /\ pc' = "main"
        /\ nfaults' > nfaults /\ pc \in {"token", "connecting", "sending"} =>
             backoff' = backoff /\ subscribes' = subscribes
        /\ written' # written => Len(subscribes) = 1 /\ subscribes' = subscribes
       ]_vars

C18_Witness ==
  /\ pc = "except"
  /\ exc = "send"
  /\ backoff = 4
  /\ subscribes = <<>>
  /\ nrecv = 1


(* C19: the open file, the current date and the current path change only   *)
(* in write_message (through _open_file), in the close() that ends run     *)
(* after a shutdown request, and at the start of a process; the failure of *)
(* a connection, the sleep and the next attempt leave them and the files   *)
(* as they are; and a write goes to the file that was open unless the day  *)
(* changed or the lines written to that file had reached the threshold.    *)
C19_ReconnectKeepsFile ==
  [][/\ <<_file, _current_date, _current_file_path>>' #
          <<_file, _current_date, _current_file_path>> =>
            \/ pc = "recv" /\ nrecv' = nrecv + 1
            \/ pc \in {"loop", "except"} /\ _shutdown /\ pc' = "done"
            \/ pc = "done" /\ pc' = "main"
     /\ pc \in {"aexit", "sleep", "cred_sleep", "token", "connecting", "sending"}
          \/ (pc \in {"loop", "except"} /\ pc' # "done")
          => UNCHANGED <<_file, _current_date, _current_file_path, disk, buf, opened,
                         written, _write_count>>
     /\ Len(written') > Len(written) /\ _file # NoFile /\ _file' # _file =>
          \/ _current_date # day
          \/ /\ _max_file_size_bytes # NoLimit
             /\ Size(disk[_file] \o buf) >= _max_file_size_bytes
     /\ Len(written') > Len(written) =>
          /\ _file' # NoFile
          /\ disk'[_file'] \o buf' # <<>>
          /\ (disk'[_file'] \o buf')[Len(disk'[_file'] \o buf')] = written'[Len(written')]
    ]_vars

C19_Witness ==
  /\ Len(opened) = 1
  /\ tokenCalls = 2
  /\ nfaults = 1
  /\ Len(written) = 2
  /\ written[1].id = 1
  /\ written[2].id = 3
  /\ Contents(opened[1]) = written
  /\ _file = opened[1]


(* C20: the handler runs only while run waits in an await, so the flag is  *)
(* never set between the test of the loop and the token request or the     *)
(* start of connect that follow it: with the flag set no token is          *)
(* requested and no connect is begun (a connect that was in flight when    *)
(* the signal was handled completes, its subscribe request is sent, and    *)
(* the inner loop's test ends the connection).  The reference _ws is empty *)
(* whenever run is outside the async with block of a connection and else   *)
(* refers to the socket of the current attempt, so the close the handler   *)
(* calls is on the socket of the attempt in progress when the signal was   *)
(* handled, which stays the last attempt of the process.                   *)
C20_FlagSeenBeforeAttempt ==
  /\ [](pc = "token" => ~_shutdown)
  /\ [](_ws # None =>
          /\ pc \in {"sending", "recv", "aexit", "except"}
          /\ conn \in {"open", "closed"}
          /\ wsOf = tokenCalls)
  /\ [](_ws = None => wsOf = 0)
  /\ [](closeReq => _shutdown /\ _ws # None /\ closeOf = wsOf)
  /\ [](closeOf # 0 => _shutdown /\ closeOf = tokenCalls)
  /\ [][/\ _shutdown /\ pc # "done" =>
             /\ tokenCalls' = tokenCalls
             /\ pc' = "connecting" => pc = "connecting"
             /\ pc' # "token"
        /\ ~_shutdown /\ _shutdown' => pc \in AwaitPoints /\ pc' = pc
        /\ closeOf' # closeOf /\ pc # "done" =>
             _ws # None /\ closeOf' = tokenCalls /\ pc \in {"sending", "recv", "aexit"}
       ]_vars

C20_Witness ==
  /\ closeOf = 2
  /\ tokenCalls = 2
  /\ pc = "done"
  /\ sdStreaming
  /\ nfaults = 1

====
